---- MODULE Spec2Model ----
(***************************************************************************)
(* CivicTrack backend: the issue collection, the flag collection and the   *)
(* request handlers that read and write them (routes/issues.js,            *)
(* routes/admin.js, database/seed.js).  Every await of the flag and of the  *)
(* listing handler is one storage round trip and one step of the model;    *)
(* requests of different clients interleave between the awaits.            *)
(* Coordinates are in 1/10000 degree, distances in metres.                 *)
(***************************************************************************)
EXTENDS Integers, FiniteSets, Sequences, TLC

\* ------------------------------------------------------------------ bounds
NumUsers == 4
NumProc == 2
MaxIssues == 1
NumReporters == 1
\* status updates recorded per issue
MaxLogs == 2
\* issues stored when the listing is exercised
MaxListed == 2
\* status updates per issue when their steps interleave
MaxUpdates == 2

\* ------------------------------------------------------- program constants
\* issues.js:501  if (flagCount >= 3)
HIDE_THRESHOLD == 3
\* seed.js / part_003:215  for (let i = 0; i < 2; i++)
SEED_FLAGS == 2
\* part_003:49-71  three sample users; sample issue k is reported by user k mod 3
SEED_USERS == 3

Users == 1..NumUsers
\* part_003:34-46  the admin user, distinct from the sample users
AdminUser == NumUsers + 1
\* req.user = null (no token, or banned) and reporter_id = null
NoUser == 0
\* the ids of the User documents
AllUsers == Users \cup {AdminUser}
Procs == 1..NumProc
IssueIds == 1..MaxIssues
\* the users who report issues; NoUser reports without a token
Reporters == 0..NumReporters

VARIABLES
  issues,      \* Issue collection: id -> document; created_at grows with the id
  issueFlags,  \* IssueFlag collection: number of records per <<issue_id, flagged_by>>
  issueVotes,  \* IssueVote collection: records per <<issue_id, user_id>> and vote_type
  statusLogs,  \* IssueStatusLog collection: per issue id, the records in insertion order
  list,        \* GET /: the listing request being handled and the response sent last
  pc,          \* per request slot: the await the handler is at
  req,         \* per request slot: the request being handled
  resp,        \* the response sent last, with the request it answers
  flaggedOk,   \* number of 'Issue flagged successfully' responses per issue id
  users        \* User collection: id -> is_admin, is_banned, is_verified

vars ==
  <<issues, issueFlags, issueVotes, statusLogs, list, pc, req, resp, flaggedOk, users>>

\* what the flag handler and the visibility route never touch
nonFlagVars == <<issueVotes, statusLogs, list, users>>

\* ------------------------------------------- responses and thrown errors
\* error: the class thrown; statusCode: the field its constructor sets
NoResponse == [error |-> "none", statusCode |-> 0, message |-> ""]
Pass == NoResponse
ValidationFailed ==
  [error |-> "ValidationError", statusCode |-> 400, message |-> "Validation failed"]
AuthRequired ==
  [error |-> "ForbiddenError", statusCode |-> 403, message |-> "Authentication required"]
IssueNotFound ==
  [error |-> "NotFoundError", statusCode |-> 404, message |-> "Issue not found"]
OwnIssue ==
  [error |-> "ForbiddenError", statusCode |-> 403, message |-> "Cannot flag your own issue"]
AlreadyFlagged ==
  [error |-> "ValidationError", statusCode |-> 400,
   message |-> "You have already flagged this issue"]
Flagged == [error |-> "none", statusCode |-> 200, message |-> "Issue flagged successfully"]
\* the rejection of a storage call, passed to next() by asyncHandler
\* (a plain Error: no statusCode field, written 0)
ConstraintViolation ==
  [error |-> "Error", statusCode |-> 0, message |-> "UNIQUE constraint failed"]
StorageFailed == [error |-> "Error", statusCode |-> 0, message |-> "storage call rejected"]

\* PUT /:id/status, POST /:id/vote, GET /:id
AdminRequired ==
  [error |-> "ForbiddenError", statusCode |-> 403, message |-> "Admin privileges required"]
StatusUpdated ==
  [error |-> "none", statusCode |-> 200, message |-> "Issue status updated successfully"]
OwnVote ==
  [error |-> "ForbiddenError", statusCode |-> 403, message |-> "Cannot vote on your own issue"]
VoteAdded == [error |-> "none", statusCode |-> 200, message |-> "Vote added successfully"]
VoteUpdated == [error |-> "none", statusCode |-> 200, message |-> "Vote updated successfully"]
\* issues.js:399 calls deleteOne, which issues.js:8-19 does not import
DeleteOneNotDefined ==
  [error |-> "ReferenceError", statusCode |-> 0, message |-> "deleteOne is not defined"]
IssueFetched == [error |-> "none", statusCode |-> 200, message |-> "issue"]

\* ------------------------------------------------------------ errorHandler
\* the classes of part_001:225-271
AppErrors == {"ValidationError", "NotFoundError", "UnauthorizedError", "ForbiddenError"}

\* err.name: AppError and its subclasses never assign it, so it is the one
\* inherited from Error.prototype; a built-in error has its own
errName(e) == IF e.error \in AppErrors THEN "Error" ELSE e.error

\* err.code: set by the storage driver on a constraint violation
errCode(e) == IF e.message = "UNIQUE constraint failed" THEN "SQLITE_CONSTRAINT" ELSE ""

\* err.message.includes(s); no message of the model holds s inside a longer text
includes(msg, s) == msg = s

\* part_001:162-209: the status errorHandler sends for the error passed to next()
errorHandler(e) ==
  IF errName(e) = "ValidationError" THEN 400
  ELSE IF errName(e) = "CastError" THEN 400
  ELSE IF errCode(e) = "SQLITE_CONSTRAINT" THEN 400
  ELSE IF errCode(e) = "SQLITE_BUSY" THEN 503
  ELSE IF includes(e.message, "ENOENT") THEN 404
  ELSE IF includes(e.message, "LIMIT_FILE_SIZE") THEN 413
  ELSE IF includes(e.message, "LIMIT_UNEXPECTED_FILE") THEN 400
  ELSE 500

\* the status the client receives: that of res.json, or, for an error thrown
\* in a handler, the one errorHandler sends (asyncHandler, part_001:216-220)
clientStatus(o) == IF o.error = "none" THEN o.statusCode ELSE errorHandler(o)

\* the response to request r with outcome o
Reply(r, o) == [req |-> r, out |-> o, sent |-> clientStatus(o)]

NoRequest == [user |-> NoUser, id |-> 0, valid |-> TRUE]

\* --------------------------------------------------------------- documents
\* the values of category (types/index.ts:64-70, part_003:93-143) and of status
Categories ==
  {"roads", "lighting", "water_supply", "cleanliness", "public_safety", "obstructions"}
Statuses == {"reported", "in_progress", "resolved"}

\* location: { latitude, longitude, address } of issues.js:253-257
Location(lat, lon) == [latitude |-> lat, longitude |-> lon, address |-> "address"]

\* the document run(Issue, {...}) stores: the fields given and the schema defaults
NewIssue(u, loc, cat) ==
  [reporter_id |-> u, flag_count |-> 0, is_hidden |-> FALSE, location |-> loc,
   category |-> cat, status |-> "reported", upvotes |-> 0, downvotes |-> 0,
   is_anonymous |-> FALSE]

\* the name of a user; no two users of the model share one
userName(u) == ToString(u)

\* .populate('reporter_id', 'name'): the reference replaced by the user's name,
\* by null when reporter_id is null
populate(u) ==
  IF u = NoUser THEN [found |-> FALSE, name |-> ""]
  ELSE [found |-> TRUE, name |-> userName(u)]

\* reporter_name: issue.reporter_id?.name || 'Anonymous'   (lines 150, 216, 308)
reporterName(ref) == IF ref.found THEN ref.name ELSE "Anonymous"

\* lines 213-220, 306-311: { ...issue, reporter_name } of the populated document
formatIssue(doc) ==
  [id \in DOMAIN doc \cup {"reporter_name"} |->
     IF id = "reporter_id" THEN populate(doc.reporter_id)
     ELSE IF id = "reporter_name" THEN reporterName(populate(doc.reporter_id))
     ELSE doc[id]]

\* the response to request r that carries the issue doc, formatted
ReplyIssue(r, o, doc) ==
  [req |-> r, out |-> o, sent |-> clientStatus(o), issue |-> formatIssue(doc)]

\* an IssueStatusLog record
StatusLog(st, u) == [status |-> st, updated_by |-> u]
NoIssue == [reporter_id |-> NoUser, flag_count |-> 0, is_hidden |-> FALSE, found |-> FALSE]

\* a User document with the schema defaults (MONGODB_MIGRATION_STATUS.md:116-118)
NewUser == [is_admin |-> FALSE, is_banned |-> FALSE, is_verified |-> FALSE]

\* part_003:37-45  the admin user the seed script creates
SeedAdmin == [is_admin |-> TRUE, is_banned |-> FALSE, is_verified |-> TRUE]

\* no IssueVote record of a user on an issue
NoVotes == [upvote |-> 0, downvote |-> 0]

\* GET /: no request in flight, no response sent
NoListing ==
  [pc |-> "idle", query |-> << >>, errors |-> FALSE, queried |-> {},
   found |-> << >>, out |-> NoResponse, sent |-> 0, items |-> << >>, total |-> 0,
   pages |-> 0]

\* ------------------------------------------------------------ storage layer
\* queryOne(Issue, { id })
queryOneIssue(iss, id) ==
  IF id \in DOMAIN iss
  THEN [reporter_id |-> iss[id].reporter_id, flag_count |-> iss[id].flag_count,
        is_hidden |-> iss[id].is_hidden, found |-> TRUE]
  ELSE NoIssue

\* count(IssueFlag, { issue_id: id })
RECURSIVE SumOver(_, _, _)
SumOver(fl, id, us) ==
  IF us = {} THEN 0
  ELSE LET u == CHOOSE x \in us : TRUE
       IN fl[<<id, u>>] + SumOver(fl, id, us \ {u})

countFlags(fl, id) == SumOver(fl, id, Users)

\* UNIQUE(issue_id, user_id) of the issue_flags table: may this record be inserted?
UniqueIssueUser_off(fl, id, u) == TRUE

UniqueIssueUser(fl, id, u) == fl[<<id, u>>] = 0

\* Issue.findOneAndUpdate({ id }, { $inc: { flag_count: 1 } }); no document, no change
IncFlagCount_set(iss, id) ==
  IF id \in DOMAIN iss THEN [iss EXCEPT ![id].flag_count = 1] ELSE iss

IncFlagCount(iss, id) ==
  IF id \in DOMAIN iss THEN [iss EXCEPT ![id].flag_count = @ + 1] ELSE iss

\* Issue.findOneAndUpdate({ id }, { is_hidden: h })
SetHidden_lost(iss, id, h) == iss

SetHidden(iss, id, h) ==
  IF id \in DOMAIN iss THEN [iss EXCEPT ![id].is_hidden = h] ELSE iss

\* --------------------------------------------------- POST /:id/flag, guards
\* lines 454-475: validation, authentication, existence, own issue
CheckIssue_noOwner(r, found) ==
  IF ~r.valid THEN ValidationFailed
  ELSE IF r.user = NoUser THEN AuthRequired
  ELSE IF ~found.found THEN IssueNotFound
  ELSE Pass

CheckIssue_noExistence(r, found) ==
  IF ~r.valid THEN ValidationFailed
  ELSE IF r.user = NoUser THEN AuthRequired
  ELSE IF found.found /\ found.reporter_id = r.user THEN OwnIssue
  ELSE Pass

CheckIssue(r, found) ==
  IF ~r.valid THEN ValidationFailed
  ELSE IF r.user = NoUser THEN AuthRequired
  ELSE IF ~found.found THEN IssueNotFound
  ELSE IF found.reporter_id = r.user THEN OwnIssue
  ELSE Pass

\* lines 477-482: queryOne(IssueFlag, { issue_id, flagged_by }) finds a record
existingFlag_never(fl, id, u) == FALSE

existingFlag(fl, id, u) == fl[<<id, u>>] > 0

\* lines 498-501: the hide decision from the flag records counted after the insert
ShouldHide_strict(fl, id) == countFlags(fl, id) > HIDE_THRESHOLD

ShouldHide_once(fl, id) == countFlags(fl, id) = HIDE_THRESHOLD

ShouldHide(fl, id) == countFlags(fl, id) >= HIDE_THRESHOLD

\* ------------------------------------------------------------------- Init
IdleProcs ==
  /\ list = NoListing
  /\ pc = [p \in Procs |-> "idle"]
  /\ req = [p \in Procs |-> NoRequest]
  /\ resp = Reply(NoRequest, NoResponse)
  /\ flaggedOk = [id \in IssueIds |-> 0]

\* the admin user and users who have registered since
registeredUsers == [u \in AllUsers |-> IF u = AdminUser THEN SeedAdmin ELSE NewUser]

\* part_003:26, 34-86  the users after seeding: the admin, the verified sample
\* users, and after them users who register later
seededUsers ==
  [u \in AllUsers |->
     IF u = AdminUser THEN SeedAdmin
     ELSE IF u <= SEED_USERS THEN [NewUser EXCEPT !.is_verified = TRUE]
     ELSE NewUser]

\* a database with no issues
InitEmpty ==
  /\ issues = << >>
  /\ issueFlags = [k \in IssueIds \X Users |-> 0]
  /\ issueVotes = [k \in IssueIds \X Users |-> NoVotes]
  /\ statusLogs = << >>
  /\ users = registeredUsers
  /\ IdleProcs

Min(a, b) == IF a < b THEN a ELSE b

\* seedDatabase (part_003): sample issue k reported by sample user ((k-1) mod 3)+1,
\* the first two flagged by the first sample user, flag_count incremented per flag
SeedFlagged == 1..Min(SEED_FLAGS, MaxIssues)

\* part_003:88-149  the sample issues
sampleIssues ==
  << [category |-> "roads", latitude |-> 407128, longitude |-> -740060,
      status |-> "reported"],
     [category |-> "lighting", latitude |-> 407589, longitude |-> -739851,
      status |-> "in_progress"],
     [category |-> "water_supply", latitude |-> 407505, longitude |-> -739934,
      status |-> "resolved"],
     [category |-> "cleanliness", latitude |-> 407589, longitude |-> -739851,
      status |-> "reported"],
     [category |-> "public_safety", latitude |-> 407308, longitude |-> -739973,
      status |-> "in_progress"],
     [category |-> "obstructions", latitude |-> 407589, longitude |-> -739851,
      status |-> "reported"] >>

\* part_003:154-212  the Issue document and the status logs of sample issue id
seededIssue(id) ==
  [reporter_id |-> ((id - 1) % SEED_USERS) + 1,
   flag_count |-> IF id \in SeedFlagged THEN 1 ELSE 0,
   is_hidden |-> FALSE,
   location |-> Location(sampleIssues[id].latitude, sampleIssues[id].longitude),
   category |-> sampleIssues[id].category,
   status |-> sampleIssues[id].status,
   upvotes |-> 0, downvotes |-> 0, is_anonymous |-> FALSE]

seededLogs(id) ==
  LET rep == ((id - 1) % SEED_USERS) + 1
      st == sampleIssues[id].status
  IN IF st = "reported" THEN << StatusLog("reported", rep) >>
     ELSE IF st = "in_progress"
          THEN << StatusLog("reported", rep), StatusLog("in_progress", AdminUser) >>
          ELSE << StatusLog("reported", rep), StatusLog("in_progress", AdminUser),
                  StatusLog("resolved", AdminUser) >>

seededFlags == [k \in IssueIds \X Users |->
                  IF k[1] \in SeedFlagged /\ k[2] = 1 THEN 1 ELSE 0]

InitSeeded ==
  /\ issues = [id \in IssueIds |-> seededIssue(id)]
  /\ issueFlags = seededFlags
  /\ issueVotes = [k \in IssueIds \X Users |-> NoVotes]
  /\ statusLogs = [id \in IssueIds |-> seededLogs(id)]
  /\ users = seededUsers
  /\ IdleProcs

Init == InitEmpty \/ InitSeeded

\* the location the flag specifications report at: that of the first sample issue
SampleLocation == Location(sampleIssues[1].latitude, sampleIssues[1].longitude)

\* ---------------------------------------------------------------- actions
\* res.json(...) or the error passed to next(): the request is over
Respond(p, r) ==
  /\ pc' = [pc EXCEPT ![p] = "idle"]
  /\ resp' = Reply(req[p], r)
  /\ req' = [req EXCEPT ![p] = NoRequest]

\* POST / (lines 244-295): run(Issue, {...}) with flag_count, votes and status at
\* their defaults, then the initial status log
CreateIssue(u, loc, cat) ==
  /\ Cardinality(DOMAIN issues) < MaxIssues
  /\ LET id == Cardinality(DOMAIN issues) + 1
     IN /\ issues' = issues @@ (id :> NewIssue(u, loc, cat))
        /\ statusLogs' = statusLogs @@ (id :> << StatusLog("reported", u) >>)
  /\ UNCHANGED <<issueFlags, issueVotes, list, pc, req, resp, flaggedOk, users>>

\* a client sends POST /:id/flag
FlagRequest(p, u, id, v) ==
  /\ pc[p] = "idle"
  /\ pc' = [pc EXCEPT ![p] = "guards"]
  /\ req' = [req EXCEPT ![p] = [user |-> u, id |-> id, valid |-> v]]
  /\ UNCHANGED <<issues, issueFlags, resp, flaggedOk>>
  /\ UNCHANGED nonFlagVars

\* FlagGuards with the duplicate check moved in front of the own-issue check
FlagGuards_dupFirst(p) ==
  /\ pc[p] = "guards"
  /\ LET found == queryOneIssue(issues, req[p].id)
         out == IF req[p].valid /\ req[p].user # NoUser /\ found.found
                   /\ existingFlag(issueFlags, req[p].id, req[p].user)
                THEN AlreadyFlagged
                ELSE CheckIssue(req[p], found)
     IN IF out = Pass
        THEN /\ pc' = [pc EXCEPT ![p] = "checkDup"]
             /\ UNCHANGED <<req, resp>>
        ELSE Respond(p, out)
  /\ UNCHANGED <<issues, issueFlags, flaggedOk>>
  /\ UNCHANGED nonFlagVars

\* lines 454-475
FlagGuards(p) ==
  /\ pc[p] = "guards"
  /\ LET out == CheckIssue(req[p], queryOneIssue(issues, req[p].id))
     IN IF out = Pass
        THEN /\ pc' = [pc EXCEPT ![p] = "checkDup"]
             /\ UNCHANGED <<req, resp>>
        ELSE Respond(p, out)
  /\ UNCHANGED <<issues, issueFlags, flaggedOk>>
  /\ UNCHANGED nonFlagVars

\* lines 477-482
FlagCheckDuplicate(p) ==
  /\ pc[p] = "checkDup"
  /\ IF existingFlag(issueFlags, req[p].id, req[p].user)
     THEN Respond(p, AlreadyFlagged)
     ELSE /\ pc' = [pc EXCEPT ![p] = "insert"]
          /\ UNCHANGED <<req, resp>>
  /\ UNCHANGED <<issues, issueFlags, flaggedOk>>
  /\ UNCHANGED nonFlagVars

\* lines 484-490: run(IssueFlag, {...})
FlagInsert(p) ==
  /\ pc[p] = "insert"
  /\ LET k == <<req[p].id, req[p].user>>
     IN IF UniqueIssueUser(issueFlags, k[1], k[2])
        THEN /\ issueFlags' = [issueFlags EXCEPT ![k] = @ + 1]
             /\ pc' = [pc EXCEPT ![p] = "inc"]
             /\ UNCHANGED <<req, resp>>
        ELSE /\ Respond(p, ConstraintViolation)
             /\ UNCHANGED issueFlags
  /\ UNCHANGED <<issues, flaggedOk>>
  /\ UNCHANGED nonFlagVars

\* lines 492-496
FlagIncrement(p) ==
  /\ pc[p] = "inc"
  /\ issues' = IncFlagCount(issues, req[p].id)
  /\ pc' = [pc EXCEPT ![p] = "count"]
  /\ UNCHANGED <<issueFlags, req, resp, flaggedOk>>
  /\ UNCHANGED nonFlagVars

\* lines 498-501 (and 508-510 when the threshold is not reached)
FlagCount(p) ==
  /\ pc[p] = "count"
  /\ IF ShouldHide(issueFlags, req[p].id)
     THEN /\ pc' = [pc EXCEPT ![p] = "hide"]
          /\ UNCHANGED <<req, resp, flaggedOk>>
     ELSE /\ Respond(p, Flagged)
          /\ flaggedOk' = [flaggedOk EXCEPT ![req[p].id] = @ + 1]
  /\ UNCHANGED <<issues, issueFlags>>
  /\ UNCHANGED nonFlagVars

\* lines 502-510
FlagHide(p) ==
  /\ pc[p] = "hide"
  /\ issues' = SetHidden(issues, req[p].id, TRUE)
  /\ Respond(p, Flagged)
  /\ flaggedOk' = [flaggedOk EXCEPT ![req[p].id] = @ + 1]
  /\ UNCHANGED issueFlags
  /\ UNCHANGED nonFlagVars

\* a storage call made after the guards rejects; asyncHandler passes it to next()
StorageFailure(p) ==
  /\ pc[p] \in {"insert", "inc", "count", "hide"}
  /\ Respond(p, StorageFailed)
  /\ UNCHANGED <<issues, issueFlags, flaggedOk>>
  /\ UNCHANGED nonFlagVars

\* AdminSetVisibility clearing the flags of an issue it makes visible again
AdminSetVisibility_resetFlags(id, h) ==
  /\ id \in DOMAIN issues
  /\ issues' = SetHidden(issues, id, h)
  /\ issueFlags' = [k \in DOMAIN issueFlags |->
                      IF k[1] = id /\ ~h THEN 0 ELSE issueFlags[k]]
  /\ UNCHANGED <<pc, req, resp, flaggedOk>>
  /\ UNCHANGED nonFlagVars

\* PUT /api/admin/issues/:id/visibility
AdminSetVisibility(id, h) ==
  /\ id \in DOMAIN issues
  /\ issues' = SetHidden(issues, id, h)
  /\ UNCHANGED <<issueFlags, pc, req, resp, flaggedOk>>
  /\ UNCHANGED nonFlagVars

\* -------------------------------------------- PUT /api/admin/users/:id/ban
AccessDenied == [error |-> "none", statusCode |-> 403, message |-> "Admin privileges required"]
BanNotBoolean ==
  [error |-> "ValidationError", statusCode |-> 400, message |-> "is_banned must be a boolean"]
VerifyNotBoolean ==
  [error |-> "ValidationError", statusCode |-> 400,
   message |-> "is_verified must be a boolean"]
UserNotFound ==
  [error |-> "ValidationError", statusCode |-> 400, message |-> "User not found"]
CannotBanAdmin ==
  [error |-> "ForbiddenError", statusCode |-> 403, message |-> "Cannot ban admin users"]
UserBanned == [error |-> "none", statusCode |-> 200, message |-> "User banned successfully"]
UserUnbanned ==
  [error |-> "none", statusCode |-> 200, message |-> "User unbanned successfully"]
UserVerified ==
  [error |-> "none", statusCode |-> 200, message |-> "User verified successfully"]
UserUnverified ==
  [error |-> "none", statusCode |-> 200, message |-> "User unverified successfully"]

\* requireAdmin (part_001:74-82): does the request of user u reach the handler?
requireAdmin(us, u) == u \in DOMAIN us /\ us[u].is_admin

\* a client sends PUT /users/:id/ban; requireAdmin answers 403 itself when
\* req.user is no admin.  v: is_banned is a boolean
BanRequest(p, caller, target, b, v) ==
  /\ pc[p] = "idle"
  /\ LET r == [user |-> caller, id |-> target, valid |-> v, is_banned |-> b]
     IN IF requireAdmin(users, caller)
        THEN /\ pc' = [pc EXCEPT ![p] = "banCheck"]
             /\ req' = [req EXCEPT ![p] = r]
             /\ UNCHANGED resp
        ELSE /\ resp' = Reply(r, AccessDenied)
             /\ UNCHANGED <<pc, req>>
  /\ UNCHANGED <<issues, issueFlags, issueVotes, statusLogs, list, flaggedOk, users>>

\* admin.js:252-268: the body, the user looked up, the admin guard
CheckBan_anyone(r, us) ==
  IF ~r.valid THEN BanNotBoolean
  ELSE IF r.id \notin DOMAIN us THEN UserNotFound
  ELSE Pass

CheckBan(r, us) ==
  IF ~r.valid THEN BanNotBoolean
  ELSE IF r.id \notin DOMAIN us THEN UserNotFound
  ELSE IF us[r.id].is_admin /\ r.is_banned THEN CannotBanAdmin
  ELSE Pass

BanCheck(p) ==
  /\ pc[p] = "banCheck"
  /\ LET out == CheckBan(req[p], users)
     IN IF out = Pass
        THEN /\ pc' = [pc EXCEPT ![p] = "banWrite"]
             /\ UNCHANGED <<req, resp>>
        ELSE Respond(p, out)
  /\ UNCHANGED <<issues, issueFlags, issueVotes, statusLogs, list, flaggedOk, users>>

\* admin.js:271-282: User.findOneAndUpdate({ id }, { is_banned, updated_at })
BanWrite(p) ==
  /\ pc[p] = "banWrite"
  /\ users' = [users EXCEPT ![req[p].id].is_banned = req[p].is_banned]
  /\ Respond(p, IF req[p].is_banned THEN UserBanned ELSE UserUnbanned)
  /\ UNCHANGED <<issues, issueFlags, issueVotes, statusLogs, list, flaggedOk>>

\* ----------------------------------------- PUT /api/admin/users/:id/verify
\* a client sends PUT /users/:id/verify
VerifyRequest(p, caller, target, b, v) ==
  /\ pc[p] = "idle"
  /\ LET r == [user |-> caller, id |-> target, valid |-> v, is_verified |-> b]
     IN IF requireAdmin(users, caller)
        THEN /\ pc' = [pc EXCEPT ![p] = "verifyCheck"]
             /\ req' = [req EXCEPT ![p] = r]
             /\ UNCHANGED resp
        ELSE /\ resp' = Reply(r, AccessDenied)
             /\ UNCHANGED <<pc, req>>
  /\ UNCHANGED <<issues, issueFlags, issueVotes, statusLogs, list, flaggedOk, users>>

\* admin.js:290-301
VerifyCheck(p) ==
  /\ pc[p] = "verifyCheck"
  /\ IF ~req[p].valid THEN Respond(p, VerifyNotBoolean)
     ELSE IF req[p].id \notin DOMAIN users THEN Respond(p, UserNotFound)
     ELSE /\ pc' = [pc EXCEPT ![p] = "verifyWrite"]
          /\ UNCHANGED <<req, resp>>
  /\ UNCHANGED <<issues, issueFlags, issueVotes, statusLogs, list, flaggedOk, users>>

\* admin.js:304-315: User.findOneAndUpdate({ id }, { is_verified, updated_at })
VerifyWrite(p) ==
  /\ pc[p] = "verifyWrite"
  /\ users' = [users EXCEPT ![req[p].id].is_verified = req[p].is_verified]
  /\ Respond(p, IF req[p].is_verified THEN UserVerified ELSE UserUnverified)
  /\ UNCHANGED <<issues, issueFlags, issueVotes, statusLogs, list, flaggedOk>>

\* ------------------------------------------------------ PUT /:id/status
\* Issue.findOneAndUpdate({ id }, { status, updated_at })   (lines 342-345)
SetStatus_unhide(iss, id, st) ==
  [iss EXCEPT ![id].status = st, ![id].is_hidden = FALSE]

SetStatus_relocate(iss, id, st) ==
  [iss EXCEPT ![id].status = st, ![id].location = Location(0, 0)]

SetStatus(iss, id, st) == [iss EXCEPT ![id].status = st]

\* lines 319-360; req.user is whatever the layers in front of the router set
UpdateStatus(u, id, st, v) ==
  /\ id \in DOMAIN issues => Len(statusLogs[id]) < MaxLogs
  /\ LET r == [user |-> u, id |-> id, valid |-> v, status |-> st]
     IN IF ~v THEN
          /\ resp' = Reply(r, ValidationFailed)
          /\ UNCHANGED <<issues, statusLogs>>
        ELSE IF u # AdminUser THEN
          /\ resp' = Reply(r, AdminRequired)
          /\ UNCHANGED <<issues, statusLogs>>
        ELSE IF id \notin DOMAIN issues THEN
          /\ resp' = Reply(r, IssueNotFound)
          /\ UNCHANGED <<issues, statusLogs>>
        ELSE
          /\ issues' = SetStatus(issues, id, st)
          /\ statusLogs' = [statusLogs EXCEPT ![id] = Append(@, StatusLog(st, u))]
          /\ resp' = Reply(r, StatusUpdated)
  /\ UNCHANGED <<issueFlags, issueVotes, list, pc, req, flaggedOk, users>>

\* lines 323-339: the body, req.user, the issue looked up
CheckStatus(r, iss) ==
  IF ~r.valid THEN ValidationFailed
  ELSE IF r.user # AdminUser THEN AdminRequired
  ELSE IF r.id \notin DOMAIN iss THEN IssueNotFound
  ELSE Pass

\* the slots whose status update of issue id has not answered yet
Updating(id) == {p \in Procs : req[p].id = id /\ pc[p] \in {"statusCheck", "statusSet", "statusLog"}}

\* a client sends PUT /:id/status; the steps below are the awaits of lines 336-354
StatusRequest(p, u, id, st, v) ==
  /\ pc[p] = "idle"
  /\ id \in DOMAIN issues => Len(statusLogs[id]) + Cardinality(Updating(id)) <= MaxUpdates
  /\ pc' = [pc EXCEPT ![p] = "statusCheck"]
  /\ req' = [req EXCEPT ![p] = [user |-> u, id |-> id, valid |-> v, status |-> st]]
  /\ UNCHANGED <<issues, issueFlags, issueVotes, statusLogs, list, resp, flaggedOk, users>>

\* lines 323-339
StatusCheck(p) ==
  /\ pc[p] = "statusCheck"
  /\ LET out == CheckStatus(req[p], issues)
     IN IF out = Pass
        THEN /\ pc' = [pc EXCEPT ![p] = "statusSet"]
             /\ UNCHANGED <<req, resp>>
        ELSE Respond(p, out)
  /\ UNCHANGED <<issues, issueFlags, issueVotes, statusLogs, list, flaggedOk, users>>

\* lines 342-345
StatusSet(p) ==
  /\ pc[p] = "statusSet"
  /\ issues' = SetStatus(issues, req[p].id, req[p].status)
  /\ pc' = [pc EXCEPT ![p] = "statusLog"]
  /\ UNCHANGED <<issueFlags, issueVotes, statusLogs, list, req, resp, flaggedOk, users>>

\* lines 348-359: run(IssueStatusLog, {...}), res.json
StatusLogged(p) ==
  /\ pc[p] = "statusLog"
  /\ statusLogs' = [statusLogs EXCEPT
                      ![req[p].id] = Append(@, StatusLog(req[p].status, req[p].user))]
  /\ Respond(p, StatusUpdated)
  /\ UNCHANGED <<issues, issueFlags, issueVotes, list, flaggedOk, users>>

\* ------------------------------------------------ POST /, await by await
IssueCreated ==
  [error |-> "none", statusCode |-> 201, message |-> "Issue created successfully"]

\* the slots whose creation has not stored its issue yet
Creating == {p \in Procs : pc[p] = "createIssue"}

\* a client sends POST /, anonymously or not
CreateRequest(p, u, anon) ==
  /\ pc[p] = "idle"
  /\ Cardinality(DOMAIN issues) + Cardinality(Creating) < MaxIssues
  /\ pc' = [pc EXCEPT ![p] = "createIssue"]
  /\ req' = [req EXCEPT ![p] = [user |-> u, id |-> 0, valid |-> TRUE,
                                 is_anonymous |-> anon]]
  /\ UNCHANGED <<issues, issueFlags, issueVotes, statusLogs, list, resp, flaggedOk, users>>

\* lines 247-261: run(Issue, {...}); no status log yet
CreateInsert(p) ==
  /\ pc[p] = "createIssue"
  /\ LET id == Cardinality(DOMAIN issues) + 1
     IN /\ issues' = issues @@
                      (id :> [NewIssue(req[p].user, SampleLocation, "roads")
                                EXCEPT !.is_anonymous = req[p].is_anonymous])
        /\ statusLogs' = statusLogs @@ (id :> << >>)
        /\ req' = [req EXCEPT ![p].id = id]
  /\ pc' = [pc EXCEPT ![p] = "createLog"]
  /\ UNCHANGED <<issueFlags, issueVotes, list, resp, flaggedOk, users>>

\* lines 289-312: the initial status log, then the response
CreateLog(p) ==
  /\ pc[p] = "createLog"
  /\ statusLogs' = [statusLogs EXCEPT
                      ![req[p].id] = Append(@, StatusLog("reported", req[p].user))]
  /\ pc' = [pc EXCEPT ![p] = "idle"]
  /\ resp' = ReplyIssue(req[p], IssueCreated, issues[req[p].id])
  /\ req' = [req EXCEPT ![p] = NoRequest]
  /\ UNCHANGED <<issues, issueFlags, issueVotes, list, flaggedOk, users>>

\* lines 263-295: sharp, run(IssueImage) or run(IssueStatusLog) rejects after the
\* issue is stored; asyncHandler passes the rejection to next()
CreateFailure(p) ==
  /\ pc[p] = "createLog"
  /\ Respond(p, StorageFailed)
  /\ UNCHANGED <<issues, issueFlags, issueVotes, statusLogs, list, flaggedOk, users>>

\* ------------------------------------------------------- POST /:id/vote
\* Issue.findOneAndUpdate({ id }, { $inc: { [`${type}s`]: d } })
IncVotes(iss, id, type, d) ==
  IF type = "upvote" THEN [iss EXCEPT ![id].upvotes = @ + d]
  ELSE [iss EXCEPT ![id].downvotes = @ + d]

\* line 393: queryOne(IssueVote, { issue_id, user_id }): the vote_type of the
\* record found, "none" without a record
existingVote_never(votes, id, u) == "none"

existingVote(votes, id, u) ==
  IF votes[<<id, u>>].upvote > 0 THEN "upvote"
  ELSE IF votes[<<id, u>>].downvote > 0 THEN "downvote"
  ELSE "none"

\* line 411: IssueVote.findOneAndUpdate({ id: existingVote.id }, { vote_type: type })
changeVote(votes, id, u, old, type) ==
  [votes EXCEPT ![<<id, u>>][old] = @ - 1, ![<<id, u>>][type] = @ + 1]

\* lines 429-434: run(IssueVote, { id: uuidv4(), issue_id, user_id, vote_type })
addVote(votes, id, u, type) == [votes EXCEPT ![<<id, u>>][type] = @ + 1]

\* lines 366-445
Vote(u, id, type, v) ==
  /\ LET r == [user |-> u, id |-> id, valid |-> v, type |-> type]
     IN IF ~v THEN
          /\ resp' = Reply(r, ValidationFailed)
          /\ UNCHANGED <<issues, issueVotes>>
        ELSE IF u = NoUser THEN
          /\ resp' = Reply(r, AuthRequired)
          /\ UNCHANGED <<issues, issueVotes>>
        ELSE IF id \notin DOMAIN issues THEN
          /\ resp' = Reply(r, IssueNotFound)
          /\ UNCHANGED <<issues, issueVotes>>
        ELSE IF issues[id].reporter_id = u THEN
          /\ resp' = Reply(r, OwnVote)
          /\ UNCHANGED <<issues, issueVotes>>
        ELSE IF existingVote(issueVotes, id, u) = type THEN
          \* lines 397-399: the same button again
          /\ resp' = Reply(r, DeleteOneNotDefined)
          /\ UNCHANGED <<issues, issueVotes>>
        ELSE IF existingVote(issueVotes, id, u) # "none" THEN
          \* lines 409-425: the other button
          /\ issueVotes' = changeVote(issueVotes, id, u,
                                      existingVote(issueVotes, id, u), type)
          /\ issues' = IncVotes(IncVotes(issues, id, type, 1),
                                id, existingVote(issueVotes, id, u), -1)
          /\ resp' = Reply(r, VoteUpdated)
        ELSE
          \* lines 427-444: the first vote
          /\ issueVotes' = addVote(issueVotes, id, u, type)
          /\ issues' = IncVotes(issues, id, type, 1)
          /\ resp' = Reply(r, VoteAdded)
  /\ UNCHANGED <<issueFlags, statusLogs, list, pc, req, flaggedOk, users>>

\* ------------------------------------------------------------ GET /:id

\* Issue.findOne({ id, is_hidden: false })   (line 188)
findVisible_any(iss, id) == id \in DOMAIN iss

findVisible(iss, id) == id \in DOMAIN iss /\ ~iss[id].is_hidden

\* lines 185-221
GetIssue(id) ==
  /\ LET r == [user |-> NoUser, id |-> id, valid |-> TRUE]
     IN IF findVisible(issues, id)
        THEN resp' = ReplyIssue(r, IssueFetched, issues[id])
        ELSE resp' = Reply(r, IssueNotFound)
  /\ UNCHANGED <<issues, issueFlags, issueVotes, statusLogs, list, pc, req, flaggedOk, users>>

\* --------------------------------------------------------------- GET /
\* the coordinates the listing is exercised on, <<latitude, longitude>>:
\* the first two sample issues (part_003:93-94, 103-104), two points either
\* side of the antimeridian, and a point in the corner of the first one's box
GeoPoints ==
  << <<407128, -740060>>, <<407589, -739851>>, <<0, 1799900>>, <<0, -1799900>>,
     <<407528, -739540>> >>

\* calculateDistance (lines 60-69) on GeoPoints, rounded to metres
DistanceM ==
  << <<0, 5420, 11348847, 11347190, 6243>>,
     <<5420, 0, 11349634, 11347979, 2706>>,
     <<11348847, 11349634, 0, 2224, 11352334>>,
     <<11347190, 11347979, 2224, 0, 11350678>>,
     <<6243, 2706, 11352334, 11350678, 0>> >>

\* Math.cos(latitude * Math.PI / 180) (line 113) on GeoPoints, times 10^6
CosE6 == <<757989, 757464, 1000000, 1000000, 757533>>

PointIndex(lat, lon) == CHOOSE i \in DOMAIN GeoPoints : GeoPoints[i] = <<lat, lon>>

calculateDistance(lat1, lon1, lat2, lon2) ==
  DistanceM[PointIndex(lat1, lon1)][PointIndex(lat2, lon2)]

cosE6(lat) == CosE6[CHOOSE i \in DOMAIN GeoPoints : GeoPoints[i][1] = lat]

\* a query parameter is << >> when absent and <<value>> when given
Given(x) == x # << >>
OrElse(x, d) == IF Given(x) THEN x[1] ELSE d

\* line 79: the categories the validator accepts
ListCategories ==
  {"all", "roads", "lighting", "water supply", "cleanliness", "public safety",
   "obstructions"}

\* lines 76-82: the validators; radius in metres
ValidQuery_noRadius(q) ==
  /\ Given(q.latitude) => (q.latitude[1] >= -900000 /\ q.latitude[1] <= 900000)
  /\ Given(q.longitude) => (q.longitude[1] >= -1800000 /\ q.longitude[1] <= 1800000)
  /\ Given(q.category) => q.category[1] \in ListCategories
  /\ Given(q.status) => q.status[1] \in {"all"} \cup Statuses
  /\ Given(q.page) => q.page[1] >= 1
  /\ Given(q.limit) => (q.limit[1] >= 1 /\ q.limit[1] <= 50)

ValidQuery(q) ==
  /\ Given(q.latitude) => (q.latitude[1] >= -900000 /\ q.latitude[1] <= 900000)
  /\ Given(q.longitude) => (q.longitude[1] >= -1800000 /\ q.longitude[1] <= 1800000)
  /\ Given(q.radius) => (q.radius[1] >= 100 /\ q.radius[1] <= 10000)
  /\ Given(q.category) => q.category[1] \in ListCategories
  /\ Given(q.status) => q.status[1] \in {"all"} \cup Statuses
  /\ Given(q.page) => q.page[1] >= 1
  /\ Given(q.limit) => (q.limit[1] >= 1 /\ q.limit[1] <= 50)

\* lines 89-97: the defaults
radius(q) == OrElse(q.radius, 5000)
page(q) == OrElse(q.page, 1)
limit(q) == OrElse(q.limit, 20)

\* line 111: if (latitude && longitude)
hasCenter(q) == Given(q.latitude) /\ Given(q.longitude)

\* lines 112-113, in 1/10000 degree
latRange(q) == (radius(q) * 10) \div 111
lonRange(q) == (radius(q) * 10000) \div ((111 * cosE6(q.latitude[1])) \div 1000)

\* lines 115-122: the bounding box
inBox(loc, q) ==
  /\ loc.latitude >= q.latitude[1] - latRange(q)
  /\ loc.latitude <= q.latitude[1] + latRange(q)
  /\ loc.longitude >= q.longitude[1] - lonRange(q)
  /\ loc.longitude <= q.longitude[1] + lonRange(q)

\* lines 99-123: the filter handed to Issue.find and to count
matchesFilter_hidden(doc, q) ==
  /\ (Given(q.category) /\ q.category[1] # "all") => doc.category = q.category[1]
  /\ (Given(q.status) /\ q.status[1] # "all") => doc.status = q.status[1]
  /\ hasCenter(q) => inBox(doc.location, q)

matchesFilter(doc, q) ==
  /\ doc.is_hidden = FALSE
  /\ (Given(q.category) /\ q.category[1] # "all") => doc.category = q.category[1]
  /\ (Given(q.status) /\ q.status[1] # "all") => doc.status = q.status[1]
  /\ hasCenter(q) => inBox(doc.location, q)

\* .sort({ created_at: -1 }): the ids of S, newest first
RECURSIVE newestFirst(_)
newestFirst(S) ==
  IF S = {} THEN << >>
  ELSE LET m == CHOOSE x \in S : \A y \in S : y <= x
       IN << m >> \o newestFirst(S \ {m})

\* lines 126-132: Issue.find(filter).sort(...).skip(skip).limit(limit).lean()
findIssues(iss, q) ==
  LET all == newestFirst({id \in DOMAIN iss : matchesFilter(iss[id], q)})
      skip == (page(q) - 1) * limit(q)
      ids == SubSeq(all, skip + 1, Min(skip + limit(q), Len(all)))
  IN [i \in 1..Len(ids) |->
        [id |-> ids[i], is_hidden |-> iss[ids[i]].is_hidden,
         location |-> iss[ids[i]].location,
         is_anonymous |-> iss[ids[i]].is_anonymous,
         reporter_id |-> populate(iss[ids[i]].reporter_id)]]

\* line 168: count(Issue, filter)
countIssues(iss, q) == Cardinality({id \in DOMAIN iss : matchesFilter(iss[id], q)})

\* line 176: Math.ceil(total / limit)
ceilDiv(a, b) == (a + b - 1) \div b

\* distance: undefined
NoDistance == -1

\* lines 147-157: each issue with its distance from the center
withDistance(found, q) ==
  [i \in 1..Len(found) |->
     [id |-> found[i].id, is_hidden |-> found[i].is_hidden,
      location |-> found[i].location,
      is_anonymous |-> found[i].is_anonymous,
      reporter_id |-> found[i].reporter_id,
      reporter_name |-> reporterName(found[i].reporter_id),
      distance |-> IF hasCenter(q)
                   THEN calculateDistance(q.latitude[1], q.longitude[1],
                                          found[i].location.latitude,
                                          found[i].location.longitude)
                   ELSE NoDistance]]

\* line 164: .sort((a, b) => a.distance - b.distance), a stable sort
sortByDistance_none(s) == s

RECURSIVE sortByDistance(_)
sortByDistance(s) ==
  IF Len(s) <= 1 THEN s
  ELSE LET t == sortByDistance(SubSeq(s, 1, Len(s) - 1))
           x == s[Len(s)]
           k == Cardinality({i \in DOMAIN t : t[i].distance <= x.distance})
       IN SubSeq(t, 1, k) \o << x >> \o SubSeq(t, k + 1, Len(t))

\* lines 159-165: the exact filter and the sort, when a center is given
filteredIssues(found, q) ==
  IF hasCenter(q)
  THEN sortByDistance(SelectSeq(withDistance(found, q),
                                LAMBDA x : x.distance <= radius(q)))
  ELSE withDistance(found, q)

Listed == [error |-> "none", statusCode |-> 200, message |-> "issues"]

\* a client sends GET /; the validators of lines 76-82 run first
ListRequest(q) ==
  /\ list.pc = "idle"
  /\ list' = [NoListing EXCEPT !.pc = "auth", !.query = q, !.errors = ~ValidQuery(q)]
  /\ UNCHANGED <<issues, issueFlags, issueVotes, statusLogs, pc, req, resp, flaggedOk, users>>

\* optionalAuth (part_001:119-147): a token is looked up in the user collection
ListAuth ==
  /\ list.pc = "auth"
  /\ list' = [list EXCEPT !.pc = "handler",
                           !.queried = IF list.query.token = "valid"
                                       THEN {"User"} ELSE {}]
  /\ UNCHANGED <<issues, issueFlags, issueVotes, statusLogs, pc, req, resp, flaggedOk, users>>

\* lines 84-132: the validation result, then Issue.find
ListFind ==
  /\ list.pc = "handler"
  /\ IF list.errors
     THEN list' = [list EXCEPT !.pc = "idle", !.out = ValidationFailed,
                               !.sent = clientStatus(ValidationFailed)]
     ELSE list' = [list EXCEPT !.pc = "count",
                               !.found = findIssues(issues, list.query),
                               !.queried = @ \cup {"Issue"}]
  /\ UNCHANGED <<issues, issueFlags, issueVotes, statusLogs, pc, req, resp, flaggedOk, users>>

\* ListRespond writing the documents it read back to the collection
ListRespond_save ==
  /\ list.pc = "count"
  /\ list' = [list EXCEPT !.pc = "idle", !.out = Listed, !.sent = clientStatus(Listed),
                           !.items = filteredIssues(list.found, list.query),
                           !.total = countIssues(issues, list.query),
                           !.pages = ceilDiv(countIssues(issues, list.query),
                                             limit(list.query)),
                           !.queried = @ \cup {"IssueImage"}]
  /\ issues' = [id \in DOMAIN issues |->
                  IF \E i \in DOMAIN list.found : list.found[i].id = id
                  THEN [issues[id] EXCEPT !.is_hidden = FALSE]
                  ELSE issues[id]]
  /\ UNCHANGED <<issueFlags, issueVotes, statusLogs, pc, req, resp, flaggedOk, users>>

\* lines 134-178: image counts, distances, exact filter, sort, total, res.json
ListRespond ==
  /\ list.pc = "count"
  /\ list' = [list EXCEPT !.pc = "idle", !.out = Listed, !.sent = clientStatus(Listed),
                           !.items = filteredIssues(list.found, list.query),
                           !.total = countIssues(issues, list.query),
                           !.pages = ceilDiv(countIssues(issues, list.query),
                                             limit(list.query)),
                           !.queried = @ \cup {"IssueImage"}]
  /\ UNCHANGED <<issues, issueFlags, issueVotes, statusLogs, pc, req, resp, flaggedOk, users>>

\* ------------------------------------------------------------ seed script
\* seedDatabase (part_003:24-229): deleteMany({}) on User, Issue, IssueImage,
\* IssueStatusLog and IssueFlag, then the samples.  The sample issues are new
\* documents with new uuids: no vote and no answered submission refers to them.
SeedDatabase ==
  /\ issues' = [id \in IssueIds |-> seededIssue(id)]
  /\ issueFlags' = seededFlags
  /\ statusLogs' = [id \in IssueIds |-> seededLogs(id)]
  /\ issueVotes' = [k \in IssueIds \X Users |-> NoVotes]
  /\ flaggedOk' = [id \in IssueIds |-> 0]
  /\ users' = seededUsers
  /\ UNCHANGED <<list, pc, req, resp>>

FlagStep(p) ==
  \/ FlagGuards(p)
  \/ FlagCheckDuplicate(p)
  \/ FlagInsert(p)
  \/ FlagIncrement(p)
  \/ FlagCount(p)
  \/ FlagHide(p)

Next ==
  \/ \E u \in Reporters : CreateIssue(u, SampleLocation, "roads")
  \/ \E p \in Procs, u \in Users \cup {NoUser}, id \in IssueIds, v \in BOOLEAN :
       FlagRequest(p, u, id, v)
  \/ \E p \in Procs : FlagStep(p)
  \/ \E p \in Procs : StorageFailure(p)
  \/ \E id \in IssueIds, h \in BOOLEAN : AdminSetVisibility(id, h)

Spec == Init /\ [][Next]_vars

\* ------------------------------------------------- restricted specifications
AllIdle == \A p \in Procs : pc[p] = "idle"

\* one flag submission at a time on a fresh database, every storage call succeeding
NextSeq ==
  \/ \E u \in Reporters : CreateIssue(u, SampleLocation, "roads")
  \/ \E p \in Procs, u \in Users \cup {NoUser}, id \in IssueIds, v \in BOOLEAN :
       AllIdle /\ FlagRequest(p, u, id, v)
  \/ \E p \in Procs : FlagStep(p)

SpecSeq == InitEmpty /\ [][NextSeq]_vars

\* concurrent flag submissions on a fresh database, every storage call succeeding
NextConc ==
  \/ \E u \in Reporters : CreateIssue(u, SampleLocation, "roads")
  \/ \E p \in Procs, u \in Users \cup {NoUser}, id \in IssueIds, v \in BOOLEAN :
       FlagRequest(p, u, id, v)
  \/ \E p \in Procs : FlagStep(p)

SpecConc == InitEmpty /\ [][NextConc]_vars

\* GET / with no parameter and no token
PlainQuery ==
  [latitude |-> << >>, longitude |-> << >>, radius |-> << >>, category |-> << >>,
   status |-> << >>, page |-> << >>, limit |-> << >>, token |-> "none"]

ListStep == ListAuth \/ ListFind \/ ListRespond

\* no request is being handled
Quiet == AllIdle /\ list.pc = "idle"

\* every handler and the seed script, one request at a time, every storage call
\* succeeding; the requests are well-formed
NextOps ==
  \/ \E u \in Reporters : Quiet /\ CreateIssue(u, SampleLocation, "roads")
  \/ \E p \in Procs, u \in Users, id \in IssueIds : Quiet /\ FlagRequest(p, u, id, TRUE)
  \/ \E p \in Procs : FlagStep(p)
  \/ \E id \in IssueIds, h \in BOOLEAN : Quiet /\ AdminSetVisibility(id, h)
  \/ \E u \in {1, AdminUser}, id \in IssueIds, st \in Statuses :
       Quiet /\ UpdateStatus(u, id, st, TRUE)
  \/ \E u \in 1..2, id \in IssueIds, t \in {"upvote", "downvote"} :
       Quiet /\ Vote(u, id, t, TRUE)
  \/ \E id \in IssueIds : Quiet /\ GetIssue(id)
  \/ AllIdle /\ ListRequest(PlainQuery)
  \/ ListStep
  \/ Quiet /\ SeedDatabase

SpecOps == InitEmpty /\ [][NextOps]_vars

\* ------------------------------------------ creation and status updates
\* issue creations that may fail after the issue is stored, and status updates
\* by the admin and by a user who is none, interleaving between their awaits
NextStatus ==
  \/ \E p \in Procs, u \in Reporters : CreateRequest(p, u, FALSE)
  \/ \E p \in Procs : CreateInsert(p) \/ CreateLog(p) \/ CreateFailure(p)
  \/ \E p \in Procs, u \in {1, AdminUser}, id \in IssueIds, st \in Statuses, v \in BOOLEAN :
       StatusRequest(p, u, id, st, v)
  \/ \E p \in Procs : StatusCheck(p) \/ StatusSet(p) \/ StatusLogged(p)

SpecStatus == InitEmpty /\ [][NextStatus]_vars

\* ------------------------------------------------- anonymous reports
\* reports sent with and without is_anonymous, with and without a token, then
\* fetched and listed
NextAnon ==
  \/ \E p \in Procs, u \in Reporters, anon \in BOOLEAN : CreateRequest(p, u, anon)
  \/ \E p \in Procs : CreateInsert(p) \/ CreateLog(p)
  \/ \E id \in IssueIds : GetIssue(id)
  \/ ListRequest(PlainQuery)
  \/ ListStep

SpecAnon == InitEmpty /\ [][NextAnon]_vars

\* ------------------------------------------------ the admin user routes
\* the users an admin acts on: a registered user and the admin
Targets == {1, AdminUser}

\* the bodies sent: <<boolean sent, is the field a boolean>>
AdminBodies == {<<TRUE, TRUE>>, <<FALSE, TRUE>>, <<TRUE, FALSE>>}

\* users of whom some are banned or verified already, no admin among the banned
InitUsers ==
  /\ users \in [AllUsers -> [is_admin : BOOLEAN, is_banned : BOOLEAN,
                               is_verified : BOOLEAN]]
  /\ \A u \in AllUsers :
       /\ users[u].is_admin = (u = AdminUser)
       /\ u \notin Targets => users[u] = NewUser
       /\ u = AdminUser => users[u] = SeedAdmin
  /\ issues = << >>
  /\ issueFlags = [k \in IssueIds \X Users |-> 0]
  /\ issueVotes = [k \in IssueIds \X Users |-> NoVotes]
  /\ statusLogs = << >>
  /\ IdleProcs

\* ban, unban and verify requests that interleave between their awaits, by the
\* admin and by a user who is none, on the targets and on an id of no user
NextAdmin ==
  \/ \E p \in Procs, c \in {1, AdminUser}, t \in Targets \cup {NoUser}, b \in AdminBodies :
       BanRequest(p, c, t, b[1], b[2])
  \/ \E p \in Procs : BanCheck(p) \/ BanWrite(p)
  \/ \E p \in Procs, c \in {1, AdminUser}, t \in Targets \cup {NoUser}, b \in AdminBodies :
       VerifyRequest(p, c, t, b[1], b[2])
  \/ \E p \in Procs : VerifyCheck(p) \/ VerifyWrite(p)
  \/ AllIdle /\ SeedDatabase

SpecAdmin == InitUsers /\ [][NextAdmin]_vars

\* ------------------------------------------------- the listing exercised
\* the issues POST / has stored: anonymous reports at the GeoPoints, of two
\* categories, one of them resolved, and a water supply report at the first
ListedDocs ==
  {[NewIssue(NoUser, Location(GeoPoints[i][1], GeoPoints[i][2]), cs[1])
      EXCEPT !.status = cs[2]] :
     i \in DOMAIN GeoPoints,
     cs \in {<<"roads", "reported">>, <<"lighting", "resolved">>}}
  \cup {NewIssue(NoUser, Location(GeoPoints[1][1], GeoPoints[1][2]), "water_supply")}

listedLogs(doc) ==
  IF doc.status = "reported" THEN << StatusLog("reported", NoUser) >>
  ELSE << StatusLog("reported", NoUser), StatusLog(doc.status, AdminUser) >>

InitListed ==
  /\ \E n \in 0..MaxListed : issues \in [1..n -> ListedDocs]
  /\ statusLogs = [id \in DOMAIN issues |-> listedLogs(issues[id])]
  /\ issueFlags = [k \in IssueIds \X Users |-> 0]
  /\ issueVotes = [k \in IssueIds \X Users |-> NoVotes]
  /\ users = registeredUsers
  /\ IdleProcs

\* req.query of GET /
Query(lat, lon, r, cat, st, pg, lim, tok) ==
  [latitude |-> lat, longitude |-> lon, radius |-> r, category |-> cat,
   status |-> st, page |-> pg, limit |-> lim, token |-> tok]

\* the default page, and pages of one issue
ListPagings == {<< << >>, << >> >>, << <<1>>, <<1>> >>, << <<2>>, <<1>> >>}

\* a center with the default radius or 6 km, on every paging
GeoQueries ==
  {Query(c[1], c[2], r, << >>, << >>, pl[1], pl[2], "none") :
     c \in {<< <<407128>>, <<-740060>> >>, << <<407589>>, <<-739851>> >>,
            << <<0>>, <<1799900>> >>},
     r \in {<< >>, <<6000>>},
     pl \in ListPagings}

\* a category or a status filter, without and with a center
FilterQueries ==
  {Query(c[1], c[2], << >>, f[1], f[2], << >>, << >>, "none") :
     c \in {<< << >>, << >> >>, << <<407128>>, <<-740060>> >>},
     f \in {<< <<"roads">>, << >> >>, << <<"water_supply">>, << >> >>,
            << << >>, <<"resolved">> >>, << <<"all">>, <<"all">> >>}}

\* a latitude, a longitude or a radius out of range, without and with a token
InvalidQueries ==
  {Query(x[1], x[2], x[3], << >>, << >>, << >>, << >>, t) :
     x \in {<< <<910000>>, <<-740060>>, << >> >>, << <<407128>>, <<1810000>>, << >> >>,
            << <<407128>>, <<-740060>>, <<11000>> >>, << << >>, << >>, <<50>> >>},
     t \in {"none", "valid"}}

ListQueries ==
  GeoQueries \cup FilterQueries \cup InvalidQueries
    \cup {PlainQuery, [PlainQuery EXCEPT !.token = "valid"]}

\* listings and fetches over stored issues whose visibility an admin changes
NextList ==
  \/ \E q \in ListQueries : ListRequest(q)
  \/ ListStep
  \/ \E id \in 1..MaxListed : GetIssue(id)
  \/ \E id \in 1..MaxListed, h \in BOOLEAN : AdminSetVisibility(id, h)

SpecList == InitListed /\ [][NextList]_vars

\* ------------------------------------------------------------ claim helpers
\* the slots whose submission on issue id is at one of the awaits in at
At(id, at) == {p \in Procs : req[p].id = id /\ pc[p] \in at}

\* the users with at least one Flag record on issue id
Flaggers(id) == {u \in Users : issueFlags[<<id, u>>] > 0}

\* slot p takes a step of its handler from the await named at
StepFrom(p, at) == pc[p] = at /\ pc'[p] # at

\* an authenticated, well-formed submission
Submitted(r) == r.valid /\ r.user # NoUser

DbUnchanged == UNCHANGED <<issues, issueFlags, flaggedOk>>

\* ------------------------------------------------------------------ claims

\* C1: in every reachable state, also between the storage steps of a flag
\* submission, each issue's flag_count equals the number of its Flag records.
FlagCountMatchesRecords ==
  \A id \in DOMAIN issues : issues[id].flag_count = countFlags(issueFlags, id)

\* C2 as claimed: in every reachable state an issue with flag_count >= 3 is hidden.
HiddenAtThreshold ==
  \A id \in DOMAIN issues : issues[id].flag_count >= 3 => issues[id].is_hidden

\* C2 as amended: the step that ends a flag submission with 'Issue flagged
\* successfully' on an issue that has 3 or more Flag records leaves it hidden.
HiddenWhenFlagSucceeds ==
  [][\A p \in Procs :
       (pc[p] # "idle" /\ pc'[p] = "idle" /\ resp'.out = Flagged
        /\ countFlags(issueFlags', req[p].id) >= 3)
       => issues'[req[p].id].is_hidden]_vars

HiddenWhenFlagSucceedsWitness ==
  /\ resp.out = Flagged
  /\ resp.req.id \in DOMAIN issues
  /\ countFlags(issueFlags, resp.req.id) >= 3
  /\ issues[resp.req.id].is_hidden

\* C3: on a fresh issue, after n sequential successful flag submissions (by n
\* distinct users, none the reporter) flag_count is n, and the issue is hidden
\* exactly when n >= 3: not before the third, at the third, and after every later one.
SequentialFlagging ==
  \A id \in DOMAIN issues :
    AllIdle =>
      /\ issues[id].flag_count = flaggedOk[id]
      /\ Cardinality(Flaggers(id)) = flaggedOk[id]
      /\ issues[id].reporter_id \notin Flaggers(id)
      /\ issues[id].is_hidden = (flaggedOk[id] >= 3)

SequentialFlaggingWitness ==
  \E id \in DOMAIN issues :
    /\ AllIdle
    /\ flaggedOk[id] = 4
    /\ issues[id].flag_count = 4
    /\ issues[id].is_hidden

\* C4: under every interleaving of concurrent flag submissions no increment is
\* lost (flag_count is the number of submissions that have run their increment)
\* and, once no submission on the issue is between its insert and its response,
\* an issue with 3 or more Flag records is hidden.
ConcurrentFlagging ==
  \A id \in DOMAIN issues :
    /\ issues[id].flag_count = flaggedOk[id] + Cardinality(At(id, {"count", "hide"}))
    /\ countFlags(issueFlags, id) = issues[id].flag_count + Cardinality(At(id, {"inc"}))
    /\ (At(id, {"inc", "count", "hide"}) = {} /\ countFlags(issueFlags, id) >= 3)
         => issues[id].is_hidden

\* both submissions have inserted and incremented before either counts
ConcurrentFlaggingWitness ==
  \E id \in DOMAIN issues :
    /\ Cardinality(At(id, {"count"})) = 2
    /\ issues[id].flag_count = 3
    /\ ~issues[id].is_hidden

FlagAllOrNothing ==
  \A id \in DOMAIN issues :
    At(id, {"inc", "count", "hide"}) = {}
      => issues[id].flag_count = countFlags(issueFlags, id)

OwnIssueForbidden ==
  [][\A p \in Procs :
       (/\ StepFrom(p, "guards")
        /\ Submitted(req[p])
        /\ req[p].id \in DOMAIN issues
        /\ issues[req[p].id].reporter_id = req[p].user)
       => /\ resp'.req = req[p]
          /\ resp'.out.error = "ForbiddenError"
          /\ resp'.out.statusCode = 403
          /\ pc'[p] = "idle"
          /\ DbUnchanged]_vars

OwnIssueWitness ==
  /\ resp.out = OwnIssue
  /\ resp.req.id \in DOMAIN issues
  /\ issues[resp.req.id].reporter_id = resp.req.user

\* C9: a submission naming an issue id that does not exist fails with NotFound
\* and changes no state.
AbsentIssueNotFound ==
  [][\A p \in Procs :
       (/\ StepFrom(p, "guards")
        /\ Submitted(req[p])
        /\ req[p].id \notin DOMAIN issues)
       => /\ resp'.req = req[p]
          /\ resp'.out.error = "NotFoundError"
          /\ resp'.out.statusCode = 404
          /\ pc'[p] = "idle"
          /\ DbUnchanged]_vars

AbsentIssueWitness ==
  /\ resp.out = IssueNotFound
  /\ resp.req.user \in Users
  /\ resp.req.id \notin DOMAIN issues

\* C10: the guards run in the order existence, own issue, duplicate, and the
\* earliest violated one decides: an absent issue gives NotFound whichever user
\* asks, the reporter gets Forbidden also with a Flag record of their own, the
\* duplicate error is given only for an existing issue of another reporter; no
\* guard step mutates, and a guard is entered only from the start of a request.
GuardOrder ==
  [][\A p \in Procs :
       /\ (StepFrom(p, "guards") /\ Submitted(req[p]))
            => /\ req[p].id \notin DOMAIN issues => resp'.out = IssueNotFound
               /\ (req[p].id \in DOMAIN issues
                   /\ issues[req[p].id].reporter_id = req[p].user)
                    => resp'.out = OwnIssue
               /\ (req[p].id \in DOMAIN issues
                   /\ issues[req[p].id].reporter_id # req[p].user)
                    => pc'[p] = "checkDup"
       /\ (pc[p] # "idle" /\ pc'[p] = "idle" /\ resp'.out = AlreadyFlagged)
            => /\ pc[p] = "checkDup"
               /\ req[p].id \in DOMAIN issues
               /\ issues[req[p].id].reporter_id # req[p].user
       /\ (pc[p] \in {"guards", "checkDup"} /\ pc'[p] # pc[p]) => DbUnchanged
       /\ (pc'[p] \in {"guards", "checkDup"} /\ pc'[p] # pc[p])
            => pc[p] \in {"idle", "guards"}]_vars

\* the reporter, holding a Flag record on the own issue, is refused as reporter
GuardOrderWitness ==
  /\ resp.out = OwnIssue
  /\ resp.req.id \in DOMAIN issues
  /\ issues[resp.req.id].reporter_id = resp.req.user
  /\ issueFlags[<<resp.req.id, resp.req.user>>] > 0

\* C11: an issue is never made visible again automatically: a step that takes
\* is_hidden of an issue from true to false is the admin visibility action; no
\* step of a flag submission, vote, status update, fetch or listing does it.
\* (The seed script deletes the issues; its samples are new documents.)
NeverUnhiddenAutomatically ==
  [][\A id \in DOMAIN issues :
       (issues[id].is_hidden /\ id \in DOMAIN issues' /\ ~issues'[id].is_hidden)
       => (AdminSetVisibility(id, FALSE) \/ SeedDatabase)]_vars

\* a hidden issue that was flagged, voted on, given a status and listed around
NeverUnhiddenWitness ==
  \E id \in DOMAIN issues :
    /\ issues[id].is_hidden
    /\ issues[id].flag_count >= 3
    /\ issues[id].status = "resolved"
    /\ issues[id].upvotes > 0
    /\ list.out = Listed

\* C12: the threshold check runs after every successful flag: a submission on an
\* issue with 3 or more Flag records answers only after writing is_hidden = true,
\* also when an admin has made the issue visible again; the write changes nothing
\* but is_hidden, and nothing at all when the issue is hidden already.
ThresholdRefires ==
  [][\A p \in Procs :
       (pc[p] # "idle" /\ pc'[p] = "idle" /\ resp'.out = Flagged)
       => /\ countFlags(issueFlags, req[p].id) >= 3 <=> pc[p] = "hide"
          /\ pc[p] = "hide"
               => /\ issues' = [issues EXCEPT ![req[p].id].is_hidden = TRUE]
                  /\ issues[req[p].id].is_hidden => issues' = issues
          /\ pc[p] # "hide" => issues' = issues]_vars

\* three submissions have answered, the issue is visible again and a fourth
\* submission has counted its records
ThresholdRefiresWitness ==
  \E p \in Procs :
    /\ pc[p] = "hide"
    /\ flaggedOk[req[p].id] >= 3
    /\ countFlags(issueFlags, req[p].id) >= 4
    /\ ~issues[req[p].id].is_hidden

\* the distance of a location from the center of query q
centerDistance(q, loc) ==
  calculateDistance(q.latitude[1], q.longitude[1], loc.latitude, loc.longitude)

\* the ids on page pg of the listing for query q over the issues iss
listedOn(iss, q, pg) ==
  LET qp == [q EXCEPT !.page = <<pg>>]
      its == filteredIssues(findIssues(iss, qp), qp)
  IN {its[i].id : i \in DOMAIN its}

Pages == 1..(MaxListed + 1)

\* C13: for a listing with a center and no category or status filter, a stored
\* issue is on exactly one page of the result if it is visible and within the
\* radius (Haversine), and on no page otherwise.
ListingIffWithinRadius ==
  (list.out = Listed /\ hasCenter(list.query)
   /\ ~Given(list.query.category) /\ ~Given(list.query.status))
  => \A id \in DOMAIN issues :
       Cardinality({pg \in Pages : id \in listedOn(issues, list.query, pg)})
         = IF centerDistance(list.query, issues[id].location) <= radius(list.query)
              /\ ~issues[id].is_hidden
           THEN 1 ELSE 0

\* C14: the bounding box has no false negatives: once the box filter of a
\* listing with a center has run, every stored issue within the radius
\* (Haversine) of the center lies inside the box.
BoxHasNoFalseNegatives ==
  (list.pc = "count" /\ hasCenter(list.query))
  => \A id \in DOMAIN issues :
       centerDistance(list.query, issues[id].location) <= radius(list.query)
       => inBox(issues[id].location, list.query)

\* C15: the items of a response to a listing with a center are in non-decreasing
\* order of distance, and the distance on each item is the Haversine distance
\* between the center and the location of that issue.
SortedByDistance ==
  (list.out = Listed /\ hasCenter(list.query))
  => /\ \A i, j \in DOMAIN list.items :
          i < j => list.items[i].distance <= list.items[j].distance
     /\ \A i \in DOMAIN list.items :
          list.items[i].distance
            = centerDistance(list.query, issues[list.items[i].id].location)

\* the nearer issue is the older one: the sort has exchanged the two
SortedByDistanceWitness ==
  /\ list.out = Listed
  /\ Len(list.items) = 2
  /\ list.items[1].id < list.items[2].id
  /\ list.items[1].distance < list.items[2].distance

\* C16: no public read returns a hidden issue: Issue.find of a listing (any
\* center, filter and page) and Issue.findOne of a fetch by id read only issues
\* whose is_hidden is false in the state they read, and every item of a response
\* is one of the documents read, with is_hidden false.
HiddenNeverReturned ==
  [][/\ (list.pc = "handler" /\ list'.pc = "count")
        => \A i \in DOMAIN list'.found : ~issues[list'.found[i].id].is_hidden
     /\ (list.pc = "count" /\ list'.pc = "idle")
        => \A i \in DOMAIN list'.items :
             /\ ~list'.items[i].is_hidden
             /\ \E j \in DOMAIN list.found : list.found[j].id = list'.items[i].id
     /\ (resp' # resp /\ resp'.out = IssueFetched)
        => /\ ~issues[resp'.req.id].is_hidden
           /\ resp'.issue = formatIssue(issues[resp'.req.id])]_vars

\* one issue is hidden, the other is listed, and the fetch of the hidden one
\* was answered 'Issue not found'
HiddenNeverReturnedWitness ==
  /\ list.out = Listed
  /\ Len(list.items) = 1
  /\ \E id \in DOMAIN issues :
       /\ issues[id].is_hidden
       /\ list.items[1].id # id
       /\ resp.out = IssueNotFound
       /\ resp.req.id = id

\* C17: the listing is a pure read: no step of it, on a valid or an invalid
\* request, changes an issue, a flag, a vote, a status log or a user.
ListingIsPureRead ==
  [][list' # list
       => UNCHANGED <<issues, issueFlags, issueVotes, statusLogs, users>>]_vars

\* a page of one issue out of two has been answered
ListingIsPureReadWitness ==
  /\ list.out = Listed
  /\ list.total = 2
  /\ Len(list.items) = 1
  /\ Len(list.found) = 1

\* a radius, latitude or longitude outside the documented range
OutOfRange(q) ==
  \/ Given(q.radius) /\ (q.radius[1] < 100 \/ q.radius[1] > 10000)
  \/ Given(q.latitude) /\ (q.latitude[1] < -900000 \/ q.latitude[1] > 900000)
  \/ Given(q.longitude) /\ (q.longitude[1] < -1800000 \/ q.longitude[1] > 1800000)

LocationImmutable ==
  [][\A id \in DOMAIN issues :
       SeedDatabase
       \/ (id \in DOMAIN issues' /\ issues'[id].location = issues[id].location)]_vars

\* an issue that was flagged, hidden, voted down and taken in progress
LocationImmutableWitness ==
  \E id \in DOMAIN issues :
    /\ issues[id].location = SampleLocation
    /\ issues[id].status = "in_progress"
    /\ issues[id].downvotes > 0
    /\ issues[id].flag_count >= 1
    /\ issues[id].is_hidden

\* C20 as claimed: no operation of the program, seeding included, mutates or
\* deletes a Flag record.
FlagsNeverDeleted ==
  [][\A k \in DOMAIN issueFlags : issueFlags'[k] >= issueFlags[k]]_vars

\* C20 as amended: no request handler (flag, vote, status update, visibility,
\* fetch, listing) mutates or deletes a Flag record; only the seed script,
\* which clears the collection, does.
FlagsKeptByHandlers ==
  [][SeedDatabase \/ \A k \in DOMAIN issueFlags : issueFlags'[k] >= issueFlags[k]]_vars

\* a Flag record of user 2 on an issue that was afterwards hidden at the
\* threshold, made visible again, resolved and voted on
FlagsKeptWitness ==
  \E id \in DOMAIN issues :
    /\ issueFlags[<<id, 2>>] = 1
    /\ issues[id].flag_count >= 3
    /\ ~issues[id].is_hidden
    /\ issues[id].status = "resolved"
    /\ issues[id].upvotes + issues[id].downvotes > 0

\* the visible issues of category c, within the radius when q has a center
visibleOfCategory(iss, q, c) ==
  {id \in DOMAIN iss :
     /\ ~iss[id].is_hidden
     /\ iss[id].category = c
     /\ hasCenter(q) => centerDistance(q, iss[id].location) <= radius(q)}

\* C21: a listing request with one of the six categories as its category filter
\* (and no status filter) is accepted, and its page holds exactly the visible
\* issues of that category, within the radius when a center is given.
CategoryFilterAccepted ==
  \A c \in Categories :
    (list.pc = "idle" /\ list.query # << >> /\ list.query.category = <<c>>
     /\ ~Given(list.query.status))
    => /\ list.out = Listed
       /\ listedOn(issues, list.query, page(list.query))
            = visibleOfCategory(issues, list.query, c)

\* the visible issues within the radius of the center of q, nearest first
rankedByDistance(iss, q) ==
  LET ids == newestFirst({id \in DOMAIN iss : ~iss[id].is_hidden})
      docs == [i \in 1..Len(ids) |->
                 [id |-> ids[i], is_hidden |-> FALSE, location |-> iss[ids[i]].location,
                  is_anonymous |-> iss[ids[i]].is_anonymous,
                  reporter_id |-> populate(iss[ids[i]].reporter_id)]]
  IN sortByDistance(SelectSeq(withDistance(docs, q),
                              LAMBDA x : x.distance <= radius(q)))

\* ranks (p-1)*L+1 .. p*L of s
pageOf(s, p, L) == SubSeq(s, (p - 1) * L + 1, Min(p * L, Len(s)))

\* C22: pagination is applied to the distance-ordered in-radius result: the
\* page of a listing with a center holds the issues ranked (p-1)*L+1 .. p*L by
\* distance among all visible issues within the radius, never more than L.
PaginatesByDistance ==
  (list.out = Listed /\ hasCenter(list.query)
   /\ ~Given(list.query.category) /\ ~Given(list.query.status))
  => LET q == list.query
         got == filteredIssues(findIssues(issues, q), q)
         want == pageOf(rankedByDistance(issues, q), page(q), limit(q))
     IN /\ Len(got) <= limit(q)
        /\ Len(got) = Len(want)
        /\ \A i \in DOMAIN got : got[i].distance = want[i].distance

\* C23: every error a handler raises as an AppError subclass reaches the client
\* with the status of its class (NotFoundError 404, ForbiddenError 403,
\* UnauthorizedError 401, ValidationError 400), never as 500.
AppErrorsKeepStatus ==
  /\ resp.out.error \in AppErrors
       => (resp.sent = resp.out.statusCode /\ resp.sent # 500)
  /\ list.out.error \in AppErrors
       => (list.sent = list.out.statusCode /\ list.sent # 500)

\* C24: voting is a toggle: a vote request of the type the user already has on
\* the issue removes the vote record and takes the counter back by one, to its
\* value before the user's first request.
VoteToggles ==
  [][\A u \in Users, id \in DOMAIN issues, t \in {"upvote", "downvote"} :
       (Vote(u, id, t, TRUE) /\ existingVote(issueVotes, id, u) = t)
       => /\ issueVotes' = [issueVotes EXCEPT ![<<id, u>>] = NoVotes]
          /\ issues' = IncVotes(issues, id, t, -1)]_vars

\* the number of IssueVote records of type t on issue id
RECURSIVE countVotes(_, _, _, _)
countVotes(votes, id, t, us) ==
  IF us = {} THEN 0
  ELSE LET u == CHOOSE x \in us : TRUE
       IN votes[<<id, u>>][t] + countVotes(votes, id, t, us \ {u})

\* C25: after any sequence of completed vote requests, for every issue upvotes
\* is the number of its vote records of type upvote, downvotes the number of
\* type downvote, neither is negative, and no user has two vote records on it.
VoteCountersMatchRecords ==
  \A id \in DOMAIN issues :
    /\ issues[id].upvotes = countVotes(issueVotes, id, "upvote", Users)
    /\ issues[id].downvotes = countVotes(issueVotes, id, "downvote", Users)
    /\ issues[id].upvotes >= 0 /\ issues[id].downvotes >= 0
    /\ \A u \in Users : issueVotes[<<id, u>>].upvote + issueVotes[<<id, u>>].downvote <= 1

\* two users have voted, one of them has changed the vote, and a repeated vote
\* has been answered with the error
VoteCountersWitness ==
  \E id \in DOMAIN issues :
    /\ issues[id].upvotes = 1 /\ issues[id].downvotes = 1
    /\ issueVotes[<<id, 1>>].downvote = 1
    /\ issueVotes[<<id, 2>>].upvote = 1
    /\ resp.out = DeleteOneNotDefined

\* C26: no admin user is ever banned: from users of whom no admin is banned,
\* after any ban, unban and verify requests no user has is_admin and is_banned;
\* a ban request on an admin fails with Forbidden and leaves the users as they are.
NoAdminBanned ==
  /\ [](\A u \in AllUsers : ~(users[u].is_admin /\ users[u].is_banned))
  /\ [][\A p \in Procs :
          (/\ StepFrom(p, "banCheck")
           /\ req[p].valid /\ req[p].is_banned
           /\ req[p].id \in AllUsers /\ users[req[p].id].is_admin)
          => /\ resp'.req = req[p]
             /\ resp'.out.error = "ForbiddenError"
             /\ resp'.out.statusCode = 403
             /\ pc'[p] = "idle"
             /\ users' = users]_vars

\* the ban of the admin was refused while another user is banned
NoAdminBannedWitness ==
  /\ resp.out = CannotBanAdmin
  /\ resp.req.id = AdminUser
  /\ users[1].is_banned
  /\ ~users[AdminUser].is_banned

\* C27: status and status history agree: whenever no request is in progress,
\* every issue has at least one status log and its status is that of its most
\* recently created status log, also after status updates whose steps
\* interleave and after a creation that fails part-way.
StatusMatchesHistory ==
  AllIdle
  => \A id \in DOMAIN issues :
       /\ Len(statusLogs[id]) >= 1
       /\ issues[id].status = statusLogs[id][Len(statusLogs[id])].status

\* the place of a status in the progression Reported -> In Progress -> Resolved
statusRank(st) == IF st = "reported" THEN 1 ELSE IF st = "in_progress" THEN 2 ELSE 3

\* C28: an issue's status follows the progression Reported -> In Progress ->
\* Resolved: a new issue starts as reported, and no step moves an issue to a
\* status earlier in that order than the one it has.
StatusOnlyProgresses ==
  [][\A id \in DOMAIN issues' :
       IF id \in DOMAIN issues
       THEN statusRank(issues'[id].status) >= statusRank(issues[id].status)
       ELSE issues'[id].status = "reported"]_vars

\* a formatted issue as it would be had nobody been logged in when it was sent
withoutReporter(v) ==
  [v EXCEPT !.reporter_id = populate(NoUser), !.reporter_name = "Anonymous"]

\* C29: anonymous reports do not reveal their reporter: in the creation, the
\* single-issue and the listing response an issue created with is_anonymous =
\* true has reporter_name 'Anonymous', and the response is the one given had it
\* been submitted by no user.
AnonymousHidesReporter ==
  /\ (resp.out \in {IssueFetched, IssueCreated} /\ resp.issue.is_anonymous)
       => (resp.issue.reporter_name = "Anonymous"
           /\ resp.issue = withoutReporter(resp.issue))
  /\ \A i \in DOMAIN list.items :
       list.items[i].is_anonymous
       => (list.items[i].reporter_name = "Anonymous"
           /\ list.items[i] = withoutReporter(list.items[i]))

\* the visible issues that match the category and status filter of q and lie
\* within the radius of its center
withinRadius(iss, q) ==
  {id \in DOMAIN iss :
     /\ ~iss[id].is_hidden
     /\ (Given(q.category) /\ q.category[1] # "all") => iss[id].category = q.category[1]
     /\ (Given(q.status) /\ q.status[1] # "all") => iss[id].status = q.status[1]
     /\ centerDistance(q, iss[id].location) <= radius(q)}

\* C30: the total of a listing with a center is the size of the full result:
\* the number of visible issues matching the filters within the radius
\* (Haversine) of the center, and pages is ceil(total / limit).
TotalIsResultSize ==
  [][(list.pc = "count" /\ list'.pc = "idle" /\ hasCenter(list.query))
     => /\ list'.total = Cardinality(withinRadius(issues, list.query))
        /\ list'.pages = ceilDiv(Cardinality(withinRadius(issues, list.query)),
                                 limit(list.query))]_vars

====
